---- MODULE Spec2Model ----
(***************************************************************************)
(* Olive Grove Cover Crop Simulator (app_streamlit.py).                    *)
(*                                                                         *)
(* The script is re-executed from its first line whenever a sidebar widget *)
(* changes.  The state is the four widget values plus the values the       *)
(* script binds while it runs.  Python numbers are modelled as IEEE-754    *)
(* binary64 values: an int converts exactly, and every float operation is  *)
(* the exact result rounded to nearest, ties to even.  All magnitudes of   *)
(* the program stay far inside the normal range, so no exponent limit is   *)
(* modelled.                                                               *)
(***************************************************************************)
EXTENDS Integers, Sequences, FiniteSets, TLC

(***************************************************************************)
(* Natural numbers of arbitrary size: little-endian sequences of limbs,    *)
(* without leading zero limbs; <<>> is zero.                               *)
(***************************************************************************)
Base == 2^15

RECURSIVE NatBitLen(_)
NatBitLen(n) == IF n = 0 THEN 0 ELSE 1 + NatBitLen(n \div 2)

LimbBits == NatBitLen(Base) - 1

RECURSIVE BTrim(_)
BTrim(a) ==
  IF a = <<>> THEN a
  ELSE IF a[Len(a)] = 0 THEN BTrim(SubSeq(a, 1, Len(a) - 1)) ELSE a

RECURSIVE BFromNat(_)
BFromNat(n) == IF n = 0 THEN <<>> ELSE <<n % Base>> \o BFromNat(n \div Base)

\* lowest limb and the remaining limbs, of zero too
Limb0(a) == IF a = <<>> THEN 0 ELSE Head(a)
Rest(a) == IF a = <<>> THEN a ELSE Tail(a)

RECURSIVE BAddC(_, _, _)
BAddC(a, b, c) ==
  IF a = <<>> /\ b = <<>> THEN (IF c = 0 THEN <<>> ELSE <<c>>)
  ELSE <<(Limb0(a) + Limb0(b) + c) % Base>>
       \o BAddC(Rest(a), Rest(b), (Limb0(a) + Limb0(b) + c) \div Base)

BAdd(a, b) == BAddC(a, b, 0)

RECURSIVE BSubB(_, _, _)
BSubB(a, b, br) ==
  IF a = <<>> THEN <<>>
  ELSE <<(Head(a) - Limb0(b) - br + Base) % Base>>
       \o BSubB(Tail(a), Rest(b), IF Head(a) - Limb0(b) - br < 0 THEN 1 ELSE 0)

\* a - b for a >= b
BSub(a, b) == BTrim(BSubB(a, b, 0))

RECURSIVE BLessAt(_, _, _)
BLessAt(a, b, i) ==
  IF i = 0 THEN FALSE
  ELSE IF a[i] # b[i] THEN a[i] < b[i] ELSE BLessAt(a, b, i - 1)

BLess(a, b) == IF Len(a) # Len(b) THEN Len(a) < Len(b) ELSE BLessAt(a, b, Len(a))

RECURSIVE BMulSmallC(_, _, _)
BMulSmallC(a, d, c) ==
  IF a = <<>> THEN (IF c = 0 THEN <<>> ELSE <<c>>)
  ELSE <<(Head(a) * d + c) % Base>> \o BMulSmallC(Tail(a), d, (Head(a) * d + c) \div Base)

RECURSIVE BMulRaw(_, _)
BMulRaw(a, b) ==
  IF a = <<>> THEN <<>>
  ELSE BAddC(BMulSmallC(b, Head(a), 0), <<0>> \o BMulRaw(Tail(a), b), 0)

BMul(a, b) == BTrim(BMulRaw(a, b))

\* long division by a divisor 0 < d <= Base, from the top limb down: the
\* remainder followed by the quotient's limbs
RECURSIVE BDivRemAt(_, _, _, _)
BDivRemAt(a, d, i, r) ==
  IF i = 0 THEN <<r>>
  ELSE Append(BDivRemAt(a, d, i - 1, (r * Base + a[i]) % d), (r * Base + a[i]) \div d)

BDivSplit(rq) == [q |-> BTrim(Tail(rq)), r |-> Head(rq)]

BDivRem(a, d) == BDivSplit(BDivRemAt(a, d, Len(a), 0))

Zeros(n) == [i \in 1..n |-> 0]

BShl(a, k) ==
  IF a = <<>> THEN a
  ELSE Zeros(k \div LimbBits) \o BMulSmallC(a, 2^(k % LimbBits), 0)

BShr(a, k) ==
  IF k \div LimbBits >= Len(a) THEN <<>>
  ELSE BDivRem(SubSeq(a, k \div LimbBits + 1, Len(a)), 2^(k % LimbBits)).q


BBitLen(a) == IF a = <<>> THEN 0 ELSE LimbBits * (Len(a) - 1) + NatBitLen(a[Len(a)])

BOdd(a) == a # <<>> /\ a[1] % 2 = 1

(***************************************************************************)
(* binary64: the value (-1)^s * m * 2^e with m of exactly Precision bits,  *)
(* or zero.  The representation is unique, so equality of two values is    *)
(* equality of the records.                                                *)
(***************************************************************************)
Precision == 53

FZero == [s |-> 0, m |-> <<>>, e |-> 0]

\* a mantissa that gained a bit by rounding up is halved
RoundCarry(s, q, E) ==
  IF BBitLen(q) > Precision THEN [s |-> s, m |-> BShr(q, 1), e |-> E + 1]
  ELSE [s |-> s, m |-> q, e |-> E]

\* T holds the Precision kept bits and the round bit of M; k bits are cut
RoundCut(s, M, E, k, T, q) ==
  RoundCarry(s, IF BOdd(T) /\ (BShl(T, k - 1) # M \/ BOdd(q)) THEN BAdd(q, <<1>>) ELSE q,
             E + k)

RoundLen(s, M, E, L) ==
  IF L <= Precision
  THEN [s |-> s, m |-> BShl(M, Precision - L), e |-> E - (Precision - L)]
  ELSE RoundCut(s, M, E, L - Precision, BShr(M, L - Precision - 1), BShr(M, L - Precision))

\* the exact value (-1)^s * M * 2^E rounded to nearest, ties to even
Round(s, M, E) == IF M = <<>> THEN FZero ELSE RoundLen(s, M, E, BBitLen(M))

FromInt(n) == IF n < 0 THEN Round(1, BFromNat(-n), 0) ELSE Round(0, BFromNat(n), 0)

GuardBits == 5 * LimbBits

\* the quotient with a sticky bit appended for a nonzero remainder
FDivSticky(qr) ==
  Round(0, BAddC(qr.q, qr.q, IF qr.r = 0 THEN 0 ELSE 1), -(GuardBits + 1))

\* a / b for naturals a and 0 < b <= Base, correctly rounded; also the value
\* of a decimal literal whose exact value is a / b
FDivInt(a, b) == FDivSticky(BDivRem(BShl(BFromNat(a), GuardBits), b))

FNeg(x) == IF x.m = <<>> THEN x ELSE [x EXCEPT !.s = 1 - x.s]

FMul(x, y) == Round((x.s + y.s) % 2, BMul(x.m, y.m), x.e + y.e)

\* X * 2^e and Y * 2^e are the magnitudes of x and y
FAddAligned(x, y, X, Y, e) ==
  IF x.s = y.s THEN Round(x.s, BAdd(X, Y), e)
  ELSE IF BLess(X, Y) THEN Round(y.s, BSub(Y, X), e)
  ELSE Round(x.s, BSub(X, Y), e)

FAddAt(x, y, e) == FAddAligned(x, y, BShl(x.m, x.e - e), BShl(y.m, y.e - e), e)

FAdd(x, y) ==
  IF x.m = <<>> THEN y
  ELSE IF y.m = <<>> THEN x
  ELSE FAddAt(x, y, IF x.e < y.e THEN x.e ELSE y.e)

FSub(x, y) == FAdd(x, FNeg(y))

\* magnitudes of two nonzero values
MagLess(x, y) == IF x.e # y.e THEN x.e < y.e ELSE BLess(x.m, y.m)

FLess(x, y) ==
  IF x.m = <<>> THEN y.m # <<>> /\ y.s = 0
  ELSE IF y.m = <<>> THEN x.s = 1
  ELSE IF x.s # y.s THEN x.s = 1
  ELSE IF x.s = 0 THEN MagLess(x, y) ELSE MagLess(y, x)

FLeq(x, y) == ~FLess(y, x)

\* Python's max(a, b): b only when b > a
FMax(a, b) == IF FLess(a, b) THEN b ELSE a

(***************************************************************************)
(* Sidebar widgets (lines 12-18).                                          *)
(***************************************************************************)
RainfallMin == 200
RainfallMax == 800
RainfallStep == 10
CoverMin == 0
CoverMax == 100
CoverStep == 10

\* the values a slider with min_value, max_value and step can hold
SliderValues(lo, hi, step) == {lo + step * k : k \in 0..((hi - lo) \div step)}

RainfallValues == SliderValues(RainfallMin, RainfallMax, RainfallStep)
CoverValues == SliderValues(CoverMin, CoverMax, CoverStep)

\* the selectbox labels, as character sequences
EarlyMarch == <<"E", "a", "r", "l", "y", " ", "(", "M", "a", "r", "c", "h", ")">>
LateMay == <<"L", "a", "t", "e", " ", "(", "M", "a", "y", ")">>
Unmowed == <<"U", "n", "m", "o", "w", "e", "d">>
MowingOptions == <<EarlyMarch, LateMay, Unmowed>>

Early == <<"E", "a", "r", "l", "y">>
\* the needle in lower case
Late_lower == <<"l", "a", "t", "e">>

Late == <<"L", "a", "t", "e">>

\* Python's  sub in s  on strings
Contains(sub, s) ==
  \E i \in 0..(Len(s) - Len(sub)) : SubSeq(s, i + 1, i + Len(sub)) = sub


(***************************************************************************)
(* The script.  Every rerun executes it from the top in a fresh namespace; *)
(* a statement maps the namespace before it to the namespace after it.     *)
(***************************************************************************)
Unbound == "unbound"

Names ==
  {"rainfall", "cover_pct", "mowing_time", "climate_change", "actual_rainfall",
   "base_runoff_pct", "runoff_reduction", "final_runoff_pct", "runoff_mm", "base_evap",
   "evap_savings", "evap_mm", "transp_mm", "net_water", "yield_kg", "years",
   "soil_depth", "erosion_rate", "soil_df"}

Fresh == [n \in Names |-> Unbound]

\* name = value
Assign(ns, name, value) == [ns EXCEPT ![name] = value]

\* the float literals of the script
F0_9 == FDivInt(9, 10)
F0_30 == FDivInt(30, 100)
F0_20 == FDivInt(20, 100)
F0_01 == FDivInt(1, 100)
F0_05 == FDivInt(5, 100)
F16_5 == FDivInt(165, 10)
F3_0 == FromInt(3)
F2_0 == FromInt(2)
F0_2 == FDivInt(2, 10)

\* the int literals of the script that meet a float
F0 == FromInt(0)
F10 == FromInt(10)
F30 == FromInt(30)
F70 == FromInt(70)
F110 == FromInt(110)
F120 == FromInt(120)
F150 == FromInt(150)
F1000 == FromInt(1000)
F1300 == FromInt(1300)

\* lines 12-18: the widgets return their current values
L12_rainfall(ns, w) == Assign(ns, "rainfall", w[1])
L13_cover_pct(ns, w) == Assign(ns, "cover_pct", w[2])
L14_mowing_time(ns, w) == Assign(ns, "mowing_time", w[3])
L18_climate_change(ns, w) == Assign(ns, "climate_change", w[4])

Sidebar(ns, w) ==
  L18_climate_change(L14_mowing_time(L13_cover_pct(L12_rainfall(ns, w), w), w), w)

\* 1. climate change adjustments
\* the rainfall without its climate reduction
L24_actual_rainfall_unreduced(ns) == Assign(ns, "actual_rainfall", FromInt(ns.rainfall))

L24_actual_rainfall(ns) ==
  Assign(ns, "actual_rainfall",
         IF ns.climate_change THEN FMul(FromInt(ns.rainfall), F0_9) ELSE FromInt(ns.rainfall))

L25_base_runoff_pct(ns) ==
  Assign(ns, "base_runoff_pct", IF ns.climate_change THEN F0_30 ELSE F0_20)

\* 2. infiltration and runoff
L29_runoff_reduction(ns) ==
  Assign(ns, "runoff_reduction", FMul(FDivInt(ns.cover_pct, 10), F0_01))

\* the reduction added to the base fraction, and the floor at 0.15
L30_final_runoff_pct_added(ns) ==
  Assign(ns, "final_runoff_pct", FMax(F0_05, FAdd(ns.base_runoff_pct, ns.runoff_reduction)))

L30_final_runoff_pct_floor15(ns) ==
  Assign(ns, "final_runoff_pct",
         FMax(FDivInt(15, 100), FSub(ns.base_runoff_pct, ns.runoff_reduction)))

L30_final_runoff_pct(ns) ==
  Assign(ns, "final_runoff_pct", FMax(F0_05, FSub(ns.base_runoff_pct, ns.runoff_reduction)))

L31_runoff_mm(ns) == Assign(ns, "runoff_mm", FMul(ns.actual_rainfall, ns.final_runoff_pct))

\* 3. evaporation
L36_base_evap(ns) == Assign(ns, "base_evap", F120)

L37_evap_savings(ns) == Assign(ns, "evap_savings", F0)

L38_if_mowed(ns) ==
  IF Contains(Early, ns.mowing_time) \/ Contains(Late, ns.mowing_time)
  THEN Assign(ns, "evap_savings", FMul(FDivInt(ns.cover_pct, 30), F16_5))
  ELSE ns

L40_evap_mm(ns) ==
  Assign(ns, "evap_mm", FMax(F30, FSub(ns.base_evap, ns.evap_savings)))

\* 4. transpiration
L44_transp_mm(ns) ==
  IF ns.mowing_time = EarlyMarch
  THEN Assign(ns, "transp_mm", FMul(FDivInt(ns.cover_pct, 50), F70))
  ELSE IF ns.mowing_time = LateMay
  THEN Assign(ns, "transp_mm", FMul(FDivInt(ns.cover_pct, 50), F110))
  ELSE Assign(ns, "transp_mm", FMul(FDivInt(ns.cover_pct, 50), F150))

\* 5. net water and yield
\* the net water floored at zero
L53_net_water_clamped(ns) ==
  Assign(ns, "net_water",
         FMax(F0, FSub(FSub(FSub(ns.actual_rainfall, ns.runoff_mm), ns.evap_mm), ns.transp_mm)))

L53_net_water(ns) ==
  Assign(ns, "net_water",
         FSub(FSub(FSub(ns.actual_rainfall, ns.runoff_mm), ns.evap_mm), ns.transp_mm))

\* the yield without its floor
L56_yield_kg_unfloored(ns) ==
  Assign(ns, "yield_kg", FSub(FMul(F10, ns.net_water), F1300))

L56_yield_kg(ns) ==
  Assign(ns, "yield_kg",
         FMax(F0, FSub(FMul(F10, ns.net_water), F1300)))

\* 6. long-term soil erosion
\* list(range(a, b))
Range(a, b) == [i \in 1..(b - a) |-> a + i - 1]

L59_years(ns) == Assign(ns, "years", Range(1, 21))

L60_soil_depth(ns) == Assign(ns, "soil_depth", <<F1000>>)

L61_erosion_rate(ns) == Assign(ns, "erosion_rate", IF ns.climate_change THEN F3_0 ELSE F2_0)

\* the threshold excluded
L62_if_cover_strict(ns) == IF ns.cover_pct > 30 THEN Assign(ns, "erosion_rate", F0_2) ELSE ns

L62_if_cover(ns) == IF ns.cover_pct >= 30 THEN Assign(ns, "erosion_rate", F0_2) ELSE ns

L66_append(ns) ==
  Assign(ns, "soil_depth",
         Append(ns.soil_depth, FSub(ns.soil_depth[Len(ns.soil_depth)], ns.erosion_rate)))

\* for y in ys: the body once per element, in order
RECURSIVE L65_for(_, _, _)
L65_for(ns, ys, i) == IF i > Len(ys) THEN ns ELSE L65_for(L66_append(ns), ys, i + 1)

L65_range_from_zero == Range(0, 20)

L65_range == Range(1, 20)

\* pd.DataFrame of two columns; it raises when the columns differ in length
L68_soil_df(ns) ==
  Assign(ns, "soil_df",
         IF Len(ns.years) # Len(ns.soil_depth) THEN "ValueError"
         ELSE [Year |-> ns.years, SoilDepthMm |-> ns.soil_depth])

Climate(ns) == L25_base_runoff_pct(L24_actual_rainfall(ns))
Runoff(ns) == L31_runoff_mm(L30_final_runoff_pct(L29_runoff_reduction(ns)))
Evaporation(ns) == L40_evap_mm(L38_if_mowed(L37_evap_savings(L36_base_evap(ns))))
Transpiration(ns) == L44_transp_mm(ns)
NetWaterYield(ns) == L56_yield_kg(L53_net_water(ns))
Erosion(ns) ==
  L68_soil_df(L65_for(L62_if_cover(L61_erosion_rate(L60_soil_depth(L59_years(ns)))),
                      L65_range, 1))

\* one execution of the script on the widget values w
Script(w) ==
  Erosion(NetWaterYield(Transpiration(Evaporation(Runoff(Climate(Sidebar(Fresh, w)))))))

Inputs == RainfallValues \X CoverValues \X {MowingOptions[i] : i \in 1..Len(MowingOptions)} \X BOOLEAN

\* the namespace the script ends with, tabulated for every combination of
\* widget values
Engine == [w \in Inputs |-> Script(w)] @@ <<>>

(***************************************************************************)
(* State: the widget values held by the session, and the globals the last  *)
(* run of the script left.                                                 *)
(***************************************************************************)
VARIABLES widgets, globals, trigger

vars == <<widgets, globals, trigger>>

\* the script runs to its end on the widget values w; trigger records what
\* started the run
Run(w, t) ==
  /\ widgets' = w
  /\ globals' = Engine[w]
  /\ trigger' = t

\* first page load: the sliders' value=, the first selectbox option, an
\* unchecked checkbox
Defaults == <<400, 30, MowingOptions[1], FALSE>>

Init ==
  /\ widgets = Defaults
  /\ globals = Engine[Defaults]
  /\ trigger = "load"

SetRainfall ==
  \E v \in RainfallValues : v # widgets[1] /\ Run([widgets EXCEPT ![1] = v], "change")

\* the cover slider moves and the previous results are kept
SetCover_stale ==
  \E v \in CoverValues :
    /\ v # widgets[2]
    /\ widgets' = [widgets EXCEPT ![2] = v]
    /\ trigger' = "change"
    /\ UNCHANGED globals

SetCover ==
  \E v \in CoverValues : v # widgets[2] /\ Run([widgets EXCEPT ![2] = v], "change")

SetMowing ==
  \E i \in 1..Len(MowingOptions) :
    MowingOptions[i] # widgets[3] /\ Run([widgets EXCEPT ![3] = MowingOptions[i]], "change")

ToggleClimate == Run([widgets EXCEPT ![4] = ~widgets[4]], "change")

\* a rerun without a widget change
Rerun == Run(widgets, "rerun")

Next == SetRainfall \/ SetCover \/ SetMowing \/ ToggleClimate \/ Rerun

Spec == Init /\ [][Next]_vars

(***************************************************************************)
(* Properties.                                                             *)
(***************************************************************************)
\* C1: after every run evap_mm >= 30, yield_kg >= 0 and final_runoff_pct >= 0.05.
C1_Floors ==
  /\ FLeq(F30, globals.evap_mm)
  /\ FLeq(F0, globals.yield_kg)
  /\ FLeq(F0_05, globals.final_runoff_pct)

\* a run whose yield sits on its floor: net water is positive, yet
\* 10 * net_water - 1300 is negative
C1_Witness ==
  /\ trigger = "change"
  /\ globals.yield_kg = F0
  /\ FLess(F0, globals.net_water)
  /\ FLess(FSub(FMul(F10, globals.net_water), F1300), F0)

ErosionRates == {F0_2, F2_0, F3_0}

\* 1000 - (n - 1) * erosion_rate, computed in one step
ClosedForm == [er \in ErosionRates |-> [n \in 1..20 |-> FSub(F1000, FMul(FromInt(n - 1), er))]] @@ <<>>

\* 2^-40, eight units in the last place of a value near 1000
Tolerance == Round(0, <<1>>, -40)

C2_Shape ==
  /\ globals.years = [y \in 1..20 |-> y]
  /\ Len(globals.soil_depth) = 20
  /\ globals.soil_df = [Year |-> globals.years, SoilDepthMm |-> globals.soil_depth]
  /\ globals.soil_depth[1] = F1000
  /\ \A n \in 2..20 :
       /\ globals.soil_depth[n] = FSub(globals.soil_depth[n - 1], globals.erosion_rate)
       /\ FLeq(globals.soil_depth[n], globals.soil_depth[n - 1])

\* C2 as stated: 20 entries paired with years 1..20, first 1000, each later
\* entry the previous minus erosion_rate, non-increasing, and entry n equal to
\* 1000 - (n - 1) * erosion_rate.
C2_Original ==
  /\ C2_Shape
  /\ \A n \in 1..20 : globals.soil_depth[n] = ClosedForm[globals.erosion_rate][n]

\* C2 amended: as C2, but entry n equals 1000 - (n - 1) * erosion_rate only for
\* the rates 2.0 and 3.0 (cover below 30) and for the first two entries; for
\* the rate 0.2 the repeated subtraction leaves entry n at most 2^-40 below it.
C2_Series ==
  /\ C2_Shape
  /\ globals.cover_pct < 30 =>
       \A n \in 1..20 : globals.soil_depth[n] = ClosedForm[globals.erosion_rate][n]
  /\ \A n \in 1..2 : globals.soil_depth[n] = ClosedForm[globals.erosion_rate][n]
  /\ \A n \in 3..20 :
       /\ FLeq(globals.soil_depth[n], ClosedForm[globals.erosion_rate][n])
       /\ FLeq(FSub(ClosedForm[globals.erosion_rate][n], globals.soil_depth[n]), Tolerance)

\* a run with the rate 0.2 whose last entry is 2^-40 away from the closed form
C2_Witness ==
  /\ trigger = "change"
  /\ globals.erosion_rate = F0_2
  /\ Len(globals.soil_depth) = 20
  /\ FSub(ClosedForm[F0_2][20], globals.soil_depth[20]) = Tolerance

OnlyCoverGrows ==
  /\ widgets'[1] = widgets[1]
  /\ widgets'[3] = widgets[3]
  /\ widgets'[4] = widgets[4]
  /\ widgets'[2] > widgets[2]

\* C5: of two runs that differ only in cover, the one with the larger cover
\* has runoff_mm no larger and evap_mm no larger.
C5_Monotone ==
  [][OnlyCoverGrows =>
       /\ FLeq(globals'.runoff_mm, globals.runoff_mm)
       /\ FLeq(globals'.evap_mm, globals.evap_mm)]_vars

\* full cover, mowed: runoff and evaporation both strictly below those of the
\* same widget values with no cover
C5_Witness ==
  /\ trigger = "change"
  /\ widgets[2] = CoverMax
  /\ FLess(globals.runoff_mm, Engine[[widgets EXCEPT ![2] = CoverMin]].runoff_mm)
  /\ FLess(globals.evap_mm, Engine[[widgets EXCEPT ![2] = CoverMin]].evap_mm)

C6_State ==
  /\ (widgets[4] /\ widgets[2] < 30) => globals.erosion_rate = F3_0
  /\ (~widgets[4] /\ widgets[2] < 30) => globals.erosion_rate = F2_0
  /\ widgets[2] >= 30 => globals.erosion_rate = F0_2
  /\ globals.erosion_rate \in ErosionRates

C6_Step ==
  (widgets'[2] = widgets[2] /\ widgets'[4] = widgets[4])
    => globals'.erosion_rate = globals.erosion_rate

\* C6: erosion_rate is 3.0 with the climate scenario and cover < 30, 2.0
\* without it and cover < 30, 0.2 for cover >= 30; it takes no other value and
\* a change of rainfall or mowing timing alone never changes it.
C6_ErosionStep == []C6_State /\ [][C6_Step]_vars

\* the override at the threshold itself, with the climate scenario on
C6_Witness ==
  /\ trigger = "change"
  /\ widgets[2] = 30
  /\ widgets[4]
  /\ globals.erosion_rate = F0_2

C7_State ==
  /\ widgets[4] =>
       /\ globals.actual_rainfall = FMul(F0_9, FromInt(widgets[1]))
       /\ globals.base_runoff_pct = F0_30
  /\ ~widgets[4] =>
       /\ globals.actual_rainfall = FromInt(widgets[1])
       /\ globals.base_runoff_pct = F0_20
  /\ globals.runoff_mm =
       FMul(globals.actual_rainfall,
            FMax(F0_05, FSub(globals.base_runoff_pct, FMul(FDivInt(widgets[2], 10), F0_01))))

C7_Toggle ==
  (~widgets[4] /\ widgets' = [widgets EXCEPT ![4] = TRUE])
    => globals'.actual_rainfall = FMul(F0_9, globals.actual_rainfall)

\* C7: with the climate flag on actual_rainfall is 0.9 * rainfall and the base
\* runoff fraction 0.30, with it off rainfall and 0.20; switching the flag on
\* multiplies actual_rainfall by 0.9; and in both cases runoff_mm is
\* actual_rainfall * max(0.05, base - (cover / 10) * 0.01).
C7_Climate == []C7_State /\ [][C7_Toggle]_vars

\* the flag on, with some cover, and a rainfall that 0.9 really reduces
C7_Witness ==
  /\ trigger = "change"
  /\ widgets[4]
  /\ widgets[2] > 0
  /\ FLess(globals.actual_rainfall, FromInt(widgets[1]))
  /\ globals.base_runoff_pct = F0_30

\* C8: net_water is actual_rainfall - runoff_mm - evap_mm - transp_mm, not
\* clamped; yield_kg is max(0, 10 * net_water - 1300) and is 0 exactly when
\* net_water <= 130; 400/30/Early/off gives 186.5 and 565, 400/0/Unmowed/on
\* gives 132 and 20.
C8_NetYield ==
  /\ globals.net_water =
       FSub(FSub(FSub(globals.actual_rainfall, globals.runoff_mm), globals.evap_mm),
            globals.transp_mm)
  /\ globals.yield_kg = FMax(F0, FSub(FMul(F10, globals.net_water), F1300))
  /\ (globals.yield_kg = F0) <=> FLeq(globals.net_water, FromInt(130))
  /\ widgets = <<400, 30, EarlyMarch, FALSE>> =>
       /\ globals.net_water = FDivInt(1865, 10)
       /\ globals.yield_kg = FromInt(565)
  /\ widgets = <<400, 0, Unmowed, TRUE>> =>
       /\ globals.net_water = FromInt(132)
       /\ globals.yield_kg = FromInt(20)

\* a run that ends with negative net water
C8_Witness ==
  /\ trigger = "change"
  /\ FLess(globals.net_water, F0)
  /\ globals.yield_kg = F0

\* C9: Early selects savings (cover / 30) * 16.5 and transpiration
\* (cover / 50) * 70, Late the same savings and (cover / 50) * 110, Unmowed no
\* savings and (cover / 50) * 150; the substring test of the savings and the
\* equality test of the transpiration select the same variant.
C9_Dispatch ==
  /\ widgets[3] \in {EarlyMarch, LateMay, Unmowed}
  /\ widgets[3] = EarlyMarch =>
       /\ globals.evap_savings = FMul(FDivInt(widgets[2], 30), F16_5)
       /\ globals.transp_mm = FMul(FDivInt(widgets[2], 50), F70)
  /\ widgets[3] = LateMay =>
       /\ globals.evap_savings = FMul(FDivInt(widgets[2], 30), F16_5)
       /\ globals.transp_mm = FMul(FDivInt(widgets[2], 50), F110)
  /\ widgets[3] = Unmowed =>
       /\ globals.evap_savings = F0
       /\ globals.transp_mm = FMul(FDivInt(widgets[2], 50), F150)
  /\ (Contains(Early, widgets[3]) \/ Contains(Late, widgets[3]))
       <=> (widgets[3] = EarlyMarch \/ widgets[3] = LateMay)

\* Late (May) with some cover: savings apply and the Late reference is used
C9_Witness ==
  /\ trigger = "change"
  /\ widgets[3] = LateMay
  /\ widgets[2] > 0
  /\ FLess(F0, globals.evap_savings)
  /\ globals.transp_mm = FMul(FDivInt(widgets[2], 50), F110)

\* C10: for the widget ranges neither floor binds: final_runoff_pct is
\* base_runoff_pct - runoff_reduction and at least 0.10, evap_mm is
\* 120 - evap_savings and at least 65.
C10_NoClamp ==
  /\ globals.final_runoff_pct = FSub(globals.base_runoff_pct, globals.runoff_reduction)
  /\ FLeq(FDivInt(10, 100), globals.final_runoff_pct)
  /\ globals.evap_mm = FSub(F120, globals.evap_savings)
  /\ FLeq(FromInt(65), globals.evap_mm)

\* full cover, mowed, no climate scenario: both values at their least
C10_Witness ==
  /\ trigger = "change"
  /\ widgets[2] = CoverMax
  /\ globals.final_runoff_pct = FDivInt(10, 100)
  /\ globals.evap_mm = FromInt(65)

====
